---- MODULE Spec2Model ----
(***************************************************************************)
(* Model of src/payload.rs: the APNs notification payload, its three       *)
(* constructors, its projection to a rustc_serialize Json tree and the     *)
(* rendering of that tree to text.                                         *)
(*                                                                         *)
(* A Rust String is a TLA+ string; Option<T> is a sequence of length 0     *)
(* (None) or 1 (Some); a BTreeMap<String, Json> is a function from keys to *)
(* Json values whose iteration order is the byte order of its keys.        *)
(***************************************************************************)
EXTENDS Integers, Sequences, FiniteSets, TLC

VARIABLES payloads, text, length, aps, json, alertJson, apsText

vars == <<payloads, text, length, aps, json, alertJson, apsText>>

---------------------------------------------------------------------------
(* Option<T> *)

None == <<>>

Some(x) == <<x>>

IsSome(o) == Len(o) = 1

Unwrap(o) == o[1]

---------------------------------------------------------------------------
(* Characters, their code points and their UTF-8 widths *)

\* the printable ASCII characters with code points 32 .. 95, in order
AsciiLow == " !\"#$%&'()*+,-./0123456789:;<=>?@ABCDEFGHIJKLMNOPQRSTUVWXYZ[\\]^_"

\* the printable ASCII characters with code points 97 .. 126, in order
AsciiHigh == "abcdefghijklmnopqrstuvwxyz{|}~"

CharAt(s, i) == SubSeq(s, i, i)

IndexIn(s, c) == CHOOSE i \in 1..Len(s) : CharAt(s, i) = c

Occurs(s, c) == \E i \in 1..Len(s) : CharAt(s, i) = c

\* the characters the modelled strings are made of
Chars ==
    {CharAt(AsciiLow, i) : i \in 1..Len(AsciiLow)}
    \cup {CharAt(AsciiHigh, i) : i \in 1..Len(AsciiHigh)}
    \cup {"\n", "é", "€"}

CodePointOf ==
    [c \in Chars |->
        IF Occurs(AsciiLow, c) THEN 31 + IndexIn(AsciiLow, c)
        ELSE IF Occurs(AsciiHigh, c) THEN 96 + IndexIn(AsciiHigh, c)
        ELSE IF c = "\n" THEN 10
        ELSE IF c = "é" THEN 233
        ELSE 8364]

CodePoint(c) == CodePointOf[c]

Utf8Width(c) ==
    LET cp == CodePoint(c)
    IN  IF cp < 128 THEN 1
        ELSE IF cp < 2048 THEN 2
        ELSE IF cp < 65536 THEN 3
        ELSE 4

\* the number of bytes of the UTF-8 encoding of s[lo..hi]
RECURSIVE BytesIn(_, _, _)
BytesIn(s, lo, hi) ==
    IF lo > hi THEN 0
    ELSE IF lo = hi THEN Utf8Width(CharAt(s, lo))
    ELSE LET mid == (lo + hi) \div 2
         IN  BytesIn(s, lo, mid) + BytesIn(s, mid + 1, hi)

\* str::len(): the number of bytes of the UTF-8 encoding
StrLen(s) == BytesIn(s, 1, Len(s))

\* Ord for String: lexicographic on bytes, which is code point order
RECURSIVE LessFrom(_, _, _)
LessFrom(a, b, i) ==
    IF i > Len(b) THEN FALSE
    ELSE IF i > Len(a) THEN TRUE
    ELSE LET ca == CodePoint(CharAt(a, i))
             cb == CodePoint(CharAt(b, i))
         IN  IF ca # cb THEN ca < cb ELSE LessFrom(a, b, i + 1)

\* variant: shorter strings first, byte order only among equal lengths
StrLessShortlex(a, b) ==
    IF Len(a) # Len(b) THEN Len(a) < Len(b) ELSE LessFrom(a, b, 1)

StrLess(a, b) == LessFrom(a, b, 1)

---------------------------------------------------------------------------
(* BTreeMap<String, Json> *)

BTreeMapNew == <<>>

Insert(d, k, v) == [x \in (DOMAIN d) \cup {k} |-> IF x = k THEN v ELSE d[x]]

\* the keys of a map in iteration order
RECURSIVE SortedKeys(_)
SortedKeys(S) ==
    IF S = {} THEN <<>>
    ELSE LET m == CHOOSE k \in S : \A o \in S \ {k} : StrLess(k, o)
         IN  <<m>> \o SortedKeys(S \ {m})

---------------------------------------------------------------------------
(* Json values *)

JsonNull == [j |-> "Null"]

JsonString(s) == [j |-> "String", s |-> s]

JsonU64(n) == [j |-> "U64", n |-> n]

JsonArray(a) == [j |-> "Array", a |-> a]

JsonObject(d) == [j |-> "Object", d |-> d]

\* Vec<String>::to_json
VecToJson(v) == JsonArray([i \in 1..Len(v) |-> JsonString(v[i])])

---------------------------------------------------------------------------
(* Rendering a Json value to compact text (Json::to_string) *)

\* escape_str: the characters of Chars that are written as an escape
\* sequence; every other character of Chars is written as it is
EscapeChar(c) ==
    CASE c = "\"" -> "\\\""
      [] c = "\\" -> "\\\\"
      [] c = "\n" -> "\\n"
      [] OTHER -> c

\* the escaped form of s[lo..hi]
RECURSIVE EscapeRange(_, _, _)
EscapeRange(s, lo, hi) ==
    IF lo > hi THEN ""
    ELSE IF lo = hi THEN EscapeChar(CharAt(s, lo))
    ELSE LET mid == (lo + hi) \div 2
         IN  EscapeRange(s, lo, mid) \o EscapeRange(s, mid + 1, hi)

Escape(s) == EscapeRange(s, 1, Len(s))

Quote(s) == "\"" \o Escape(s) \o "\""

Digit(d) == CharAt("0123456789", d + 1)

RECURSIVE Decimal(_)
Decimal(n) == IF n < 10 THEN Digit(n) ELSE Decimal(n \div 10) \o Digit(n % 10)

RECURSIVE RenderJson(_)
RECURSIVE RenderItems(_)
RECURSIVE RenderEntries(_, _)

\* the elements of an array, comma separated
RenderItems(a) ==
    IF a = <<>> THEN ""
    ELSE RenderJson(Head(a))
         \o (IF Len(a) > 1 THEN "," ELSE "")
         \o RenderItems(Tail(a))

\* the entries of an object, comma separated, in the order ks
RenderEntries(d, ks) ==
    IF ks = <<>> THEN ""
    ELSE Quote(Head(ks)) \o ":" \o RenderJson(d[Head(ks)])
         \o (IF Len(ks) > 1 THEN "," ELSE "")
         \o RenderEntries(d, Tail(ks))

RenderJson(v) ==
    CASE v.j = "Null" -> "null"
      [] v.j = "String" -> Quote(v.s)
      [] v.j = "U64" -> Decimal(v.n)
      [] v.j = "Array" -> "[" \o RenderItems(v.a) \o "]"
      [] v.j = "Object" -> "{" \o RenderEntries(v.d, SortedKeys(DOMAIN v.d)) \o "}"

---------------------------------------------------------------------------
(* The payload model *)

Plain(s) == [tag |-> "Plain", s |-> s]

Localized(l) == [tag |-> "Localized", l |-> l]

\* variant: an absent string is written as the empty string
OptStringToJsonEmpty(o) == IF IsSome(o) THEN JsonString(Unwrap(o)) ELSE JsonString("")

\* variant: an absent list is written as the empty array
OptVecToJsonEmpty(o) == IF IsSome(o) THEN VecToJson(Unwrap(o)) ELSE JsonArray(<<>>)

\* the null-on-absence rule of the localized alert's optional fields
OptStringToJson(o) == IF IsSome(o) THEN JsonString(Unwrap(o)) ELSE JsonNull

OptVecToJson(o) == IF IsSome(o) THEN VecToJson(Unwrap(o)) ELSE JsonNull

\* impl ToJson for APSLocalizedAlert; loc_key and loc_args are matched with
\* `if let Some`, so they are optional here as in the first declaration of
\* the struct
LocalizedAlertToJson(l) ==
    LET d1 == Insert(BTreeMapNew, "title", JsonString(l.title))
        d2 == Insert(d1, "body", JsonString(l.body))
        d3 == Insert(d2, "title-loc-key", OptStringToJson(l.title_loc_key))
        d4 == Insert(d3, "title-loc-args", OptVecToJson(l.title_loc_args))
        d5 == Insert(d4, "action-loc-key", OptStringToJson(l.action_loc_key))
        d6 == Insert(d5, "loc-key", OptStringToJson(l.loc_key))
        d7 == Insert(d6, "loc-args", OptVecToJson(l.loc_args))
        d8 == IF IsSome(l.launch_image)
              THEN Insert(d7, "launch-image", JsonString(Unwrap(l.launch_image)))
              ELSE d7
    IN  JsonObject(d8)

\* variant: a plain alert is wrapped in an object, as a localized one is
AlertToJsonNested(a) ==
    IF a.tag = "Plain"
    THEN JsonObject(Insert(BTreeMapNew, "body", JsonString(a.s)))
    ELSE LocalizedAlertToJson(a.l)

\* the value stored under "alert"
AlertToJson(a) ==
    IF a.tag = "Plain" THEN JsonString(a.s) ELSE LocalizedAlertToJson(a.l)

\* variant: an absent badge is written as null, as the localized alert's
\* optional fields are
APSToJsonNullBadge(a) ==
    LET d1 == IF IsSome(a.alert)
              THEN Insert(BTreeMapNew, "alert", AlertToJson(Unwrap(a.alert)))
              ELSE BTreeMapNew
        d2 == IF IsSome(a.badge)
              THEN Insert(d1, "badge", JsonU64(Unwrap(a.badge)))
              ELSE Insert(d1, "badge", JsonNull)
        d3 == IF IsSome(a.sound)
              THEN Insert(d2, "sound", JsonString(Unwrap(a.sound)))
              ELSE d2
        d4 == IF IsSome(a.content_available)
              THEN Insert(d3, "content-available", JsonU64(Unwrap(a.content_available)))
              ELSE d3
        d5 == IF IsSome(a.category)
              THEN Insert(d4, "category", JsonString(Unwrap(a.category)))
              ELSE d4
    IN  JsonObject(d5)

\* impl ToJson for APS
APSToJson(a) ==
    LET d1 == IF IsSome(a.alert)
              THEN Insert(BTreeMapNew, "alert", AlertToJson(Unwrap(a.alert)))
              ELSE BTreeMapNew
        d2 == IF IsSome(a.badge)
              THEN Insert(d1, "badge", JsonU64(Unwrap(a.badge)))
              ELSE d1
        d3 == IF IsSome(a.sound)
              THEN Insert(d2, "sound", JsonString(Unwrap(a.sound)))
              ELSE d2
        d4 == IF IsSome(a.content_available)
              THEN Insert(d3, "content-available", JsonU64(Unwrap(a.content_available)))
              ELSE d3
        d5 == IF IsSome(a.category)
              THEN Insert(d4, "category", JsonString(Unwrap(a.category)))
              ELSE d4
    IN  JsonObject(d5)

\* impl ToJson for Payload
PayloadToJson(p) == JsonObject(Insert(BTreeMapNew, "aps", APSToJson(p.aps)))

\* variant: the text is appended to a buffer shared by all calls and never
\* cleared, here the text the caller holds for p
PayloadToStringShared(p) ==
    (IF IsSome(text["p"]) THEN Unwrap(text["p"]) ELSE "")
        \o RenderJson(PayloadToJson(p))

\* Payload::to_string
PayloadToString(p) == RenderJson(PayloadToJson(p))

\* variant: the number of characters of the text, not of bytes
PayloadLenChars(p) == Len(RenderJson(PayloadToJson(p)))

\* Payload::len
PayloadLen(p) == StrLen(PayloadToString(p))

\* variant: Payload::new marks the payload content-available
NewContentAvailable(alert, badge, sound, category) ==
    [aps |-> [alert |-> Some(alert),
              badge |-> Some(badge),
              sound |-> Some(sound),
              content_available |-> Some(1),
              category |-> category]]

\* Payload::new; the u32 badge is stored in the Option<u32> field, so it is
\* always present
New(alert, badge, sound, category) ==
    [aps |-> [alert |-> Some(alert),
              badge |-> Some(badge),
              sound |-> Some(sound),
              content_available |-> None,
              category |-> category]]

\* variant: the action notification is marked content-available
NewActionNotificationAvailable(alert, badge, sound, category) ==
    [aps |-> [alert |-> Some(alert),
              badge |-> badge,
              sound |-> Some(sound),
              content_available |-> Some(1),
              category |-> Some(category)]]

\* Payload::new_action_notification
NewActionNotification(alert, badge, sound, category) ==
    [aps |-> [alert |-> Some(alert),
              badge |-> badge,
              sound |-> Some(sound),
              content_available |-> None,
              category |-> Some(category)]]

\* variant: the silent notification clears the badge instead of omitting it
NewSilentNotificationBadged ==
    [aps |-> [alert |-> None,
              badge |-> Some(0),
              sound |-> None,
              content_available |-> Some(1),
              category |-> None]]

\* Payload::new_silent_notification
NewSilentNotification ==
    [aps |-> [alert |-> None,
              badge |-> None,
              sound |-> None,
              content_available |-> Some(1),
              category |-> None]]

---------------------------------------------------------------------------
(* The inputs the callers pass *)

\* the localized alert of the "New Message" scenario
MessageAlert ==
    [title |-> "New Message", body |-> "You have mail",
     title_loc_key |-> None, title_loc_args |-> None,
     action_loc_key |-> None, loc_key |-> Some("MSG_KEY"),
     loc_args |-> None, launch_image |-> None]

\* a localized alert with every field set, non-ASCII and escaped characters
FullAlert ==
    [title |-> "Caf\"é\"", body |-> "5 € \\ due\n",
     title_loc_key |-> Some("TK"), title_loc_args |-> Some(<<"a", "b">>),
     action_loc_key |-> Some("VIEW"), loc_key |-> Some("MSG_KEY"),
     loc_args |-> Some(<<>>), launch_image |-> Some("img.png")]

\* arguments of Payload::new: alert, badge, sound, category
NewArgs ==
    ({Plain("Reminder"), Localized(FullAlert)} \X {0, 10} \X {"chime"}
        \X {None, Some("REMINDER_CAT")})
    \cup {<<Plain("Hi"), 1, "default", None>>,
          <<Plain("é \"€\""), 0, "", Some("")>>}

\* arguments of Payload::new_action_notification: alert, badge, sound, category
ActionArgs ==
    ({Plain("Reminder"), Localized(FullAlert)} \X {None, Some(10)} \X {"chime"}
        \X {"REMINDER_CAT"})
    \cup {<<Localized(MessageAlert), None, "", "é">>}

LocalizedAlerts ==
    [title : {"New Message", "Caf\"é\""}, body : {"You have mail"},
     title_loc_key : {None, Some("TK")},
     title_loc_args : {None, Some(<<"a", "b">>)},
     action_loc_key : {None, Some("VIEW")},
     loc_key : {None, Some("MSG_KEY")},
     loc_args : {None, Some(<<>>)},
     launch_image : {None, Some("img.png")}]

\* the APS values a caller can write as a struct literal (all fields are pub)
APSValues ==
    [alert : {None, Some(Plain("Reminder")), Some(Plain("é \"€\""))}
                \cup {Some(Localized(l)) : l \in LocalizedAlerts},
     badge : {None, Some(0), Some(10)},
     sound : {None, Some("chime")},
     content_available : {None, Some(1)},
     category : {None, Some("REMINDER_CAT")}]

\* the value of the projection variables while no APS literal is under study
NoAPS == NewSilentNotification.aps

---------------------------------------------------------------------------
(* Constructing, rendering and measuring payloads *)

\* the caller's variables that hold a payload
Handles == {"p", "q"}

NoPayloads == [h \in Handles |-> None]

Init ==
    /\ payloads = NoPayloads
    /\ text = NoPayloads
    /\ length = NoPayloads
    /\ aps = NoAPS
    /\ json = None
    /\ alertJson = None
    /\ apsText = None

\* the caller binds h to the payload p that constructor ctor returned for
\* args; whatever h held before is dropped
Construct(h, p, ctor, args) ==
    /\ payloads' = [payloads EXCEPT ![h] = Some([p |-> p, ctor |-> ctor, args |-> args])]
    /\ text' = [text EXCEPT ![h] = None]
    /\ length' = [length EXCEPT ![h] = None]
    /\ UNCHANGED <<aps, json, alertJson, apsText>>

DoNew(h) ==
    \E a \in NewArgs :
        Construct(h, New(a[1], a[2], a[3], a[4]), "new", a)

DoNewActionNotification(h) ==
    \E a \in ActionArgs :
        Construct(h, NewActionNotification(a[1], a[2], a[3], a[4]),
                  "new_action_notification", a)

DoNewSilentNotification(h) ==
    Construct(h, NewSilentNotification, "new_silent_notification", <<>>)

\* the caller calls to_string() on the payload of h and keeps the result
DoToString(h) ==
    /\ IsSome(payloads[h])
    /\ text' = [text EXCEPT ![h] = Some(PayloadToString(Unwrap(payloads[h]).p))]
    /\ UNCHANGED <<payloads, length, aps, json, alertJson, apsText>>

\* the caller calls len() on the payload of h and keeps the result
DoLen(h) ==
    /\ IsSome(payloads[h])
    /\ length' = [length EXCEPT ![h] = Some(PayloadLen(Unwrap(payloads[h]).p))]
    /\ UNCHANGED <<payloads, text, aps, json, alertJson, apsText>>

Next ==
    \/ \E h \in Handles : DoNew(h)
    \/ \E h \in Handles : DoNewActionNotification(h)
    \/ \E h \in Handles : DoNewSilentNotification(h)
    \/ \E h \in Handles : DoToString(h)
    \/ \E h \in Handles : DoLen(h)

Spec == Init /\ [][Next]_vars

---------------------------------------------------------------------------
(* Projecting an arbitrary APS value *)

InitProj ==
    /\ payloads = NoPayloads
    /\ text = NoPayloads
    /\ length = NoPayloads
    /\ aps \in APSValues
    /\ json = None
    /\ alertJson = None
    /\ apsText = None

\* aps.to_json()
DoApsToJson ==
    /\ json' = Some(APSToJson(aps))
    /\ UNCHANGED <<payloads, text, length, aps, alertJson, apsText>>

\* to_json() on the localized alert held by aps
DoAlertToJson ==
    /\ IsSome(aps.alert)
    /\ Unwrap(aps.alert).tag = "Localized"
    /\ alertJson' = Some(LocalizedAlertToJson(Unwrap(aps.alert).l))
    /\ UNCHANGED <<payloads, text, length, aps, json, apsText>>

\* Payload { aps: aps }.to_string()
DoRender ==
    /\ apsText' = Some(PayloadToString([aps |-> aps]))
    /\ UNCHANGED <<payloads, text, length, aps, json, alertJson>>

NextProj ==
    \/ DoApsToJson
    \/ DoAlertToJson
    \/ DoRender

SpecProj == InitProj /\ [][NextProj]_vars

---------------------------------------------------------------------------
(* Notions the properties are stated with *)

\* the payload held by handle h
PayloadOf(h) == Unwrap(payloads[h]).p

\* the key-to-value map of the "aps" object of the projection of p
ApsObject(p) == PayloadToJson(p).d["aps"].d

Rendered(h) == IsSome(payloads[h]) /\ IsSome(text[h])

BuiltBy(h, ctor) == IsSome(payloads[h]) /\ Unwrap(payloads[h]).ctor = ctor

\* the bytes of the UTF-8 encoding of the character with code point cp
Utf8Bytes(cp) ==
    IF cp < 128 THEN <<cp>>
    ELSE IF cp < 2048 THEN <<192 + (cp \div 64), 128 + (cp % 64)>>
    ELSE IF cp < 65536
         THEN <<224 + (cp \div 4096), 128 + ((cp \div 64) % 64), 128 + (cp % 64)>>
    ELSE <<240 + (cp \div 262144), 128 + ((cp \div 4096) % 64),
           128 + ((cp \div 64) % 64), 128 + (cp % 64)>>

\* the bytes of the UTF-8 encoding of s[lo..hi]
RECURSIVE Utf8Encode(_, _, _)
Utf8Encode(s, lo, hi) ==
    IF lo > hi THEN <<>>
    ELSE IF lo = hi THEN Utf8Bytes(CodePoint(CharAt(s, lo)))
    ELSE LET mid == (lo + hi) \div 2
         IN  Utf8Encode(s, lo, mid) \o Utf8Encode(s, mid + 1, hi)

Utf8ByteLength(s) == Len(Utf8Encode(s, 1, Len(s)))

---------------------------------------------------------------------------
(* Properties of the constructors, to_string and len (under Spec) *)

\* C1: a payload built by Payload::new projects to an aps object whose keys
\* are exactly alert, badge and sound, plus category if and only if a
\* category was passed; content-available is never among them.
C1_StandardKeys ==
    \A h \in Handles :
        BuiltBy(h, "new") =>
            LET keys == DOMAIN ApsObject(PayloadOf(h))
                category == Unwrap(payloads[h]).args[4]
            IN  /\ keys = {"alert", "badge", "sound"}
                            \cup (IF IsSome(category) THEN {"category"} ELSE {})
                /\ "content-available" \notin keys

C1_Witness ==
    /\ BuiltBy("p", "new") /\ IsSome(Unwrap(payloads["p"]).args[4])
    /\ BuiltBy("q", "new") /\ ~IsSome(Unwrap(payloads["q"]).args[4])
    /\ Rendered("p") /\ Rendered("q")

SilentText == "{\"aps\":{\"content-available\":1}}"

\* C2: every rendering of a payload built by new_silent_notification is the
\* text {"aps":{"content-available":1}}, whatever was constructed or
\* rendered before.
C2_SilentText ==
    \A h \in Handles :
        BuiltBy(h, "new_silent_notification") /\ Rendered(h) =>
            Unwrap(text[h]) = SilentText

C2_Witness ==
    /\ BuiltBy("q", "new_silent_notification") /\ Rendered("q")
    /\ BuiltBy("p", "new") /\ Rendered("p") /\ IsSome(length["p"])

ReminderArgs == <<Plain("Reminder"), None, "chime", "REMINDER_CAT">>

IsReminder(h) ==
    /\ BuiltBy(h, "new_action_notification")
    /\ Unwrap(payloads[h]).args = ReminderArgs
    /\ Rendered(h)

\* C5 as stated: the "Reminder" action notification renders with its keys in
\* the order alert, sound, category.
C5_Original ==
    \A h \in Handles :
        IsReminder(h) =>
            Unwrap(text[h]) =
                "{\"aps\":{\"alert\":\"Reminder\",\"sound\":\"chime\",\"category\":\"REMINDER_CAT\"}}"

\* C5: the "Reminder" action notification (badge None, sound "chime",
\* category "REMINDER_CAT") renders with its keys in the order alert,
\* category, sound, and without a badge key.
C5_ReminderText ==
    \A h \in Handles :
        IsReminder(h) =>
            /\ Unwrap(text[h]) =
                "{\"aps\":{\"alert\":\"Reminder\",\"category\":\"REMINDER_CAT\",\"sound\":\"chime\"}}"
            /\ "badge" \notin DOMAIN ApsObject(PayloadOf(h))

C5_Witness == IsReminder("p")

\* C8: len() returns the number of bytes of the UTF-8 encoding of the text
\* to_string() returns, and a call of len() changes no payload.
C8_LenIsByteLength ==
    /\ [](\A h \in Handles :
            IsSome(payloads[h]) /\ IsSome(length[h]) =>
                Unwrap(length[h]) = Utf8ByteLength(PayloadToString(PayloadOf(h))))
    /\ [][\A h \in Handles :
            IsSome(length'[h]) /\ length'[h] # length[h] => payloads' = payloads]_vars

\* a measured payload whose text holds characters of more than one byte
C8_Witness ==
    /\ IsSome(payloads["p"]) /\ IsSome(length["p"]) /\ Rendered("p")
    /\ Unwrap(length["p"]) > Len(Unwrap(text["p"]))

C10_AlertXorContentAvailable ==
    \A h \in Handles :
        IsSome(payloads[h]) =>
            LET a == PayloadOf(h).aps
                keys == DOMAIN ApsObject(PayloadOf(h))
            IN  /\ IsSome(a.content_available) <=> ~IsSome(a.alert)
                /\ IsSome(a.content_available) => Unwrap(a.content_available) = 1
                /\ ("alert" \in keys) <=> ("content-available" \notin keys)

C10_Witness ==
    /\ BuiltBy("p", "new_silent_notification")
    /\ BuiltBy("q", "new_action_notification")

---------------------------------------------------------------------------
(* Properties of the projection of any APS value (under SpecProj) *)

ApsKeys == {"alert", "badge", "sound", "content-available", "category"}

\* the field of the APS value a that the key k is emitted for
FieldOf(a, k) ==
    CASE k = "alert" -> a.alert
      [] k = "badge" -> a.badge
      [] k = "sound" -> a.sound
      [] k = "content-available" -> a.content_available
      [] k = "category" -> a.category

\* C3: the aps object has each of the keys alert, badge, sound,
\* content-available and category if and only if the field is present, has
\* no other key, and no key of it maps to null.
C3_KeyIffPresent ==
    IsSome(json) =>
        LET d == Unwrap(json).d
        IN  /\ DOMAIN d \subseteq ApsKeys
            /\ \A k \in ApsKeys : k \in DOMAIN d <=> IsSome(FieldOf(aps, k))
            /\ \A k \in DOMAIN d : d[k].j # "Null"

C3_Witness ==
    /\ IsSome(json)
    /\ ~IsSome(aps.alert) /\ ~IsSome(aps.badge) /\ IsSome(aps.sound)
    /\ IsSome(aps.content_available) /\ ~IsSome(aps.category)

NullableKeys == {"title-loc-key", "title-loc-args", "action-loc-key", "loc-key", "loc-args"}

\* the JSON value of an optional string, null when absent
StringOrNull(o) == IF o = None THEN JsonNull ELSE JsonString(o[1])

\* the JSON value of an optional list of strings, null when absent
ArrayOrNull(o) ==
    IF o = None THEN JsonNull
    ELSE JsonArray([i \in 1..Len(o[1]) |-> JsonString(o[1][i])])

\* C4: the object of a localized alert always has title, body and the five
\* nullable keys, each nullable key holding null when its field is absent
\* and the field's value otherwise; it has launch-image if and only if
\* launch_image is set, and no other key.
C4_LocalizedAlertKeys ==
    IsSome(alertJson) =>
        LET l == Unwrap(aps.alert).l
            d == Unwrap(alertJson).d
        IN  /\ {"title", "body"} \cup NullableKeys \subseteq DOMAIN d
            /\ DOMAIN d \subseteq {"title", "body", "launch-image"} \cup NullableKeys
            /\ d["title"] = JsonString(l.title)
            /\ d["body"] = JsonString(l.body)
            /\ d["title-loc-key"] = StringOrNull(l.title_loc_key)
            /\ d["title-loc-args"] = ArrayOrNull(l.title_loc_args)
            /\ d["action-loc-key"] = StringOrNull(l.action_loc_key)
            /\ d["loc-key"] = StringOrNull(l.loc_key)
            /\ d["loc-args"] = ArrayOrNull(l.loc_args)
            /\ "launch-image" \in DOMAIN d <=> IsSome(l.launch_image)
            /\ IsSome(l.launch_image) => d["launch-image"] = JsonString(l.launch_image[1])

C4_Witness ==
    /\ IsSome(alertJson)
    /\ Unwrap(aps.alert).l.title_loc_args = None
    /\ Unwrap(aps.alert).l.loc_args # None
    /\ Unwrap(aps.alert).l.action_loc_key = None
    /\ Unwrap(aps.alert).l.launch_image = None

\* the APS value whose only field is the "New Message" localized alert
MessageAPS ==
    [alert |-> Some(Localized(MessageAlert)), badge |-> None, sound |-> None,
     content_available |-> None, category |-> None]

\* C6 as stated: the "New Message" payload renders with the alert's keys in
\* the order title, body, title-loc-key, title-loc-args, action-loc-key,
\* loc-key, loc-args.
C6_Original ==
    aps = MessageAPS /\ IsSome(apsText) =>
        Unwrap(apsText) =
            "{\"aps\":{\"alert\":{\"title\":\"New Message\",\"body\":\"You have mail\",\"title-loc-key\":null,\"title-loc-args\":null,\"action-loc-key\":null,\"loc-key\":\"MSG_KEY\",\"loc-args\":null}}}"

\* C6: the "New Message" payload renders with the alert's keys in the order
\* action-loc-key, body, loc-args, loc-key, title, title-loc-args,
\* title-loc-key, the absent fields as null and no launch-image key.
C6_MessageText ==
    aps = MessageAPS /\ IsSome(apsText) =>
        Unwrap(apsText) =
            "{\"aps\":{\"alert\":{\"action-loc-key\":null,\"body\":\"You have mail\",\"loc-args\":null,\"loc-key\":\"MSG_KEY\",\"title\":\"New Message\",\"title-loc-args\":null,\"title-loc-key\":null}}}"

C6_Witness == aps = MessageAPS /\ IsSome(apsText)

\* C7: the value under alert is the bare JSON string of a plain alert's
\* text, and it is a JSON object if and only if the alert is localized.
C7_PlainIsBareString ==
    IsSome(json) /\ IsSome(aps.alert) =>
        LET a == Unwrap(aps.alert)
            v == Unwrap(json).d["alert"]
        IN  /\ a.tag = "Plain" => v.j = "String" /\ v.s = a.s
            /\ v.j = "Object" <=> a.tag = "Localized"

C7_Witness ==
    /\ IsSome(json) /\ IsSome(aps.alert)
    /\ Unwrap(aps.alert).tag = "Plain"
    /\ Unwrap(aps.alert).s # "Reminder"

====
